---- MODULE Spec2Model ----
(***************************************************************************)
(* Model of scripts/landmark_connectivity.py and landmark_counter.py: the    *)
(* frequency counter, the ownership assigner and the reindexer, with the    *)
(* output directory and the files they write.                               *)
(*                                                                          *)
(* Strings are sequences of one-character strings, so that f-strings,       *)
(* str.endswith, str.replace, os.path.basename and os.path.splitext are     *)
(* computed character by character.  Python dicts are insertion-ordered:    *)
(* a dict is a sequence of [key, value] records in insertion order.         *)
(***************************************************************************)
EXTENDS Naturals, Sequences, FiniteSets, TLC

VARIABLES
    script,                   \* which file's functions run
    fn,                       \* the function being executed
    pc,                       \* position inside fn
    error,                    \* the exception that ended the run, or "none"
    pyfg_filepath,            \* argument pyfg_filepath / args.dataset
    file_content,             \* content of the file at pyfg_filepath
    dir_exists,               \* os.path.isdir(output_dir) now
    out_files,                \* files written in output_dir: dict name -> content
    pyfg_data,                \* result of read_from_pyfg_file, or NoData
    robot_landmark_frequency, \* dict landmark symbol -> list of counts
    i,                        \* number of completed iterations of the current loop
    landmark_owner,           \* dict landmark symbol -> robot character
    reapplied                 \* reindex_landmarks was called again on its own output

vars == <<script, fn, pc, error, pyfg_filepath, file_content, dir_exists,
          out_files, pyfg_data, robot_landmark_frequency, i, landmark_owner, reapplied>>

----------------------------------------------------------------------------
(* Bounds of the model *)

MaxRobots == 3
MaxLandmarks == 2
MaxMeasurements == 3
MaxTextLen == 3
RandResolution == 4

----------------------------------------------------------------------------
(* Strings *)

DigitChars == <<"0", "1", "2", "3", "4", "5", "6", "7", "8", "9">>

\* str(n) of a non-negative int, as an f-string formats it
RECURSIVE Str(_)
Str(n) ==
    IF n < 10 THEN <<DigitChars[n + 1]>>
    ELSE Str(n \div 10) \o <<DigitChars[(n % 10) + 1]>>

\* a slip of the validation: ".pyfg" in s
ContainsSeq(s, suffix) ==
    \E k \in 0..(Len(s) - Len(suffix)) : SubSeq(s, k + 1, k + Len(suffix)) = suffix

\* s.endswith(suffix)
EndsWith(s, suffix) ==
    /\ Len(s) >= Len(suffix)
    /\ SubSeq(s, Len(s) - Len(suffix) + 1, Len(s)) = suffix

\* s.replace(old, new) for a non-empty old: leftmost non-overlapping occurrences
RECURSIVE Replace(_, _, _)
Replace(s, old, new) ==
    IF Len(s) < Len(old) THEN s
    ELSE IF SubSeq(s, 1, Len(old)) = old
         THEN new \o Replace(SubSeq(s, Len(old) + 1, Len(s)), old, new)
         ELSE <<s[1]>> \o Replace(Tail(s), old, new)

\* index of the last occurrence of character c in s, 0 when there is none
LastIndexOf(s, c) ==
    IF \E k \in 1..Len(s) : s[k] = c
    THEN CHOOSE k \in 1..Len(s) : s[k] = c /\ \A m \in (k + 1)..Len(s) : s[m] # c
    ELSE 0

\* os.path.basename(p)
BaseName(p) == SubSeq(p, LastIndexOf(p, "/") + 1, Len(p))

\* os.path.splitext(base)[0] for a name without directory: the extension starts at
\* the last dot, unless only dots precede it
SplitextRoot(base) ==
    LET dot == LastIndexOf(base, ".")
    IN  IF dot > 0 /\ \E k \in 1..(dot - 1) : base[k] # "."
        THEN SubSeq(base, 1, dot - 1)
        ELSE base

PyfgExt == <<".", "p", "y", "f", "g">>
CsvSuffix == <<"_", "l", "a", "n", "d", "m", "a", "r", "k", "_", "c", "o", "n", "n", "e",
               "c", "t", "i", "v", "i", "t", "y", ".", "c", "s", "v">>
OwnershipSuffix == <<"_", "w", "i", "t", "h", "_", "o", "w", "n", "e", "r", "s", "h", "i",
                     "p", ".", "p", "y", "f", "g">>
OutputDir == <<"o", "u", "t">>

\* os.path.join(output_dir, name)
PathJoin(dir, name) == dir \o <<"/">> \o name

\* name of the CSV file inside output_dir
CsvName(path) == SplitextRoot(BaseName(path)) \o CsvSuffix

\* name of the reindexed dataset inside output_dir
ReindexedName(path) == SplitextRoot(BaseName(path)) \o OwnershipSuffix

----------------------------------------------------------------------------
(* Insertion-ordered dicts *)

Item(k, v) == [key |-> k, value |-> v]

Keys(d) == {d[n].key : n \in 1..Len(d)}

HasKey(d, k) == k \in Keys(d)

\* d[k] for a key the dict holds
Get(d, k) == d[CHOOSE n \in 1..Len(d) : d[n].key = k].value

\* d[k] = v: overwrites in place, or appends a new key
Put(d, k, v) ==
    IF HasKey(d, k)
    THEN [n \in 1..Len(d) |-> IF d[n].key = k THEN Item(k, v) ELSE d[n]]
    ELSE Append(d, Item(k, v))

----------------------------------------------------------------------------
(* py_factor_graph.utils.name_utils *)

RobotChars == <<"A", "B", "C", "D", "E", "F", "G", "H">>

get_robot_char_from_number(n) == RobotChars[n + 1]

get_robot_idx_from_char(c) == (CHOOSE n \in 1..Len(RobotChars) : RobotChars[n] = c) - 1

----------------------------------------------------------------------------
(* landmark_counter *)

NoData == [num_robots |-> 0, num_landmarks |-> 0, range_measurements |-> <<>>]

\* f"L{i}"
LandmarkSymbol(n) == <<"L">> \o Str(n)

\* [0] * num_robots
Zeros(n) == [k \in 1..n |-> 0]

\* the dict after the initialisation loop over range(num_landmarks)
RECURSIVE InitialFrequency(_, _)
InitialFrequency(num_landmarks, num_robots) ==
    IF num_landmarks = 0 THEN <<>>
    ELSE Put(InitialFrequency(num_landmarks - 1, num_robots),
             LandmarkSymbol(num_landmarks - 1), Zeros(num_robots))

\* the test that skips inter-robot range measurements; landmark_counter.py has none
SkipsMeasure(s, measure) ==
    /\ s = "landmark_connectivity.py"
    /\ measure.association[2][1] # "L"

\* a slip of the index: robots numbered from 1
RobotIdxFromOne(measure) ==
    CHOOSE n \in 1..Len(RobotChars) : RobotChars[n] = measure.association[1][1]

\* robot_idx of the measurement's observer
RobotIdx(measure) == get_robot_idx_from_char(measure.association[1][1])

\* a slip of the initialisation: one list shared by every landmark, so that the
\* increment shows in all of them
IncrementShared(frequency, landmark, robot_idx) ==
    [n \in 1..Len(frequency) |->
        Item(frequency[n].key, [frequency[n].value EXCEPT ![robot_idx + 1] = @ + 1])]

\* robot_landmark_frequency[landmark][robot_idx] += 1
Increment(frequency, landmark, robot_idx) ==
    Put(frequency, landmark,
        [Get(frequency, landmark) EXCEPT ![robot_idx + 1] = @ + 1])

\* the text append_frequency_to_csv writes: a header row and one row per landmark
CsvRows(frequency, num_robots) ==
    <<  <<  <<"landmark_symbol">> >>
        \o [r \in 1..num_robots |-> <<get_robot_char_from_number(r - 1), "_count">>] >>
    \o [n \in 1..Len(frequency) |->
            <<frequency[n].key>>
            \o [r \in 1..Len(frequency[n].value) |-> Str(frequency[n].value[r])]]

----------------------------------------------------------------------------
(* assign_ownership_to_landmarks *)

RECURSIVE Sum(_)
Sum(freq) == IF freq = <<>> THEN 0 ELSE freq[1] + Sum(Tail(freq))

\* a slip of the test: "not freq", true of the empty list only
IsEmptyList(freq) == Len(freq) = 0

\* sum(freq) == 0: none of the robots see the landmark
IsUnobserved(freq) == Sum(freq) = 0

\* all(x == freq[0] for x in freq)
IsTie(freq) == \A k \in 1..Len(freq) : freq[k] = freq[1]

\* random.random() returns a float in [0, 1): the value r / RandResolution
RandomValues == 0..(RandResolution - 1)

\* a slip of the rounding: math.ceil
RandomIndexCeil(r, n) == ((r * n) + RandResolution - 1) \div RandResolution

\* math.floor(random.random() * len(freq))
RandomIndex(r, n) == (r * n) \div RandResolution

\* max(freq)
Max(freq) == CHOOSE m \in {freq[k] : k \in 1..Len(freq)} : \A k \in 1..Len(freq) : freq[k] <= m

\* slips of the index: the last position holding the maximum, and the first one
\* counted from 1
LastMaxIndex(freq) ==
    (CHOOSE k \in 1..Len(freq) :
        (\A m \in 1..Len(freq) : freq[m] <= freq[k])
        /\ \A m \in (k + 1)..Len(freq) : freq[m] < freq[k]) - 1

MaxIndexFromOne(freq) ==
    CHOOSE k \in 1..Len(freq) :
        (\A m \in 1..Len(freq) : freq[m] <= freq[k])
        /\ \A m \in 1..(k - 1) : freq[m] < freq[k]

\* freq.index(max_freq): the first position holding the value, counted from 0
MaxIndex(freq) ==
    (CHOOSE k \in 1..Len(freq) :
        freq[k] = Max(freq) /\ \A m \in 1..(k - 1) : freq[m] # Max(freq)) - 1

----------------------------------------------------------------------------
(* reindex_landmarks *)

\* what open(path, "r") delivers: universal newlines turn "\r\n" and "\r" into "\n"
RECURSIVE Decode(_)
Decode(text) ==
    IF text = <<>> THEN <<>>
    ELSE IF text[1] = "\r"
         THEN IF Len(text) >= 2 /\ text[2] = "\n"
              THEN <<"\n">> \o Decode(SubSeq(text, 3, Len(text)))
              ELSE <<"\n">> \o Decode(Tail(text))
         ELSE <<text[1]>> \o Decode(Tail(text))

\* a slip of the line loop: str.splitlines(), which drops the line ends
RECURSIVE SplitLines(_)
SplitLines(text) ==
    IF text = <<>> THEN <<>>
    ELSE IF \E k \in 1..Len(text) : text[k] = "\n"
         THEN LET k == CHOOSE n \in 1..Len(text) :
                          text[n] = "\n" /\ \A m \in 1..(n - 1) : text[m] # "\n"
              IN  <<SubSeq(text, 1, k - 1)>> \o SplitLines(SubSeq(text, k + 1, Len(text)))
         ELSE <<text>>

\* the lines "for line in f" yields from decoded text: each ends after its "\n",
\* the last one may have none
RECURSIVE Lines(_)
Lines(text) ==
    IF text = <<>> THEN <<>>
    ELSE IF \E k \in 1..Len(text) : text[k] = "\n"
         THEN LET k == CHOOSE n \in 1..Len(text) :
                          text[n] = "\n" /\ \A m \in 1..(n - 1) : text[m] # "\n"
              IN  <<SubSeq(text, 1, k)>> \o Lines(SubSeq(text, k + 1, Len(text)))
         ELSE <<text>>

\* f"L{owner}{landmark[1:]}"
NewSymbol(landmark, owner) == <<"L", owner>> \o Tail(landmark)

\* the inner loop over landmark_owner.items(), applied to one line
RECURSIVE ReindexLine(_, _)
ReindexLine(line, owners) ==
    IF owners = <<>> THEN line
    ELSE ReindexLine(Replace(line, owners[1].key, NewSymbol(owners[1].key, owners[1].value)),
                     Tail(owners))

RECURSIVE Concat(_)
Concat(ls) == IF ls = <<>> THEN <<>> ELSE ls[1] \o Concat(Tail(ls))

\* the content of the reindexed file once every line is written
ReindexText(text, owners) ==
    LET ls == Lines(Decode(text))
    IN  Concat([n \in 1..Len(ls) |-> ReindexLine(ls[n], owners)])

----------------------------------------------------------------------------
(* Inputs *)

ValidName == <<"d", "/", "a", ".", "p", "y", "f", "g">>
BackupName == <<"a", ".", "p", "y", "f", "g", "~">>
BareName == <<"p", "y", "f", "g">>
FileNames == {ValidName, BackupName, BareName}

Scripts == {"landmark_connectivity.py", "landmark_counter.py"}

\* pose symbols of the observers, one pose per robot
Observers(num_robots) == {<<RobotChars[r], "0">> : r \in 1..num_robots}

\* the range measurements of a dataset: any robot ranging to any landmark and, with
\* two robots or more, the first robot ranging to a pose of the last one
Measures(num_robots, num_landmarks) ==
    {[association |-> <<o, LandmarkSymbol(n)>>] :
        o \in Observers(num_robots), n \in 0..(num_landmarks - 1)}
    \cup (IF num_robots >= 2
          THEN {[association |-> <<<<RobotChars[1], "0">>, <<RobotChars[num_robots], "1">>>>]}
          ELSE {})

SeqsUpTo(S, n) == UNION {[1..k -> S] : k \in 0..n}

\* the dataset file of a landmark_counter run
SampleTexts == {<<"L", "0", " ", "L", "1", "\n">>}

\* frequency dicts of a direct call of assign_ownership_to_landmarks
FrequencyArgs ==
    {<<Item(LandmarkSymbol(0), v)>> : v \in UNION {[1..r -> 0..1] : r \in 1..MaxRobots}}

\* file contents and ownership dicts of a direct call of reindex_landmarks
TextAlphabet == {"L", "1", "0", "\n", "\r"}
ReindexKeys == {LandmarkSymbol(1), LandmarkSymbol(10)}
OwnerItems == {Item(k, o) : k \in ReindexKeys, o \in {RobotChars[1], RobotChars[2]}}
OwnershipArgs == {d \in SeqsUpTo(OwnerItems, 2) : Cardinality(Keys(d)) = Len(d)}

----------------------------------------------------------------------------
(* Steps *)

Fail(e) ==
    /\ pc' = "failed"
    /\ error' = e

\* assert pyfg_filepath.endswith(".pyfg"), logger.critical(...)
Validate ==
    /\ pc = "validate"
    /\ IF EndsWith(pyfg_filepath, PyfgExt)
       THEN pc' = "makedirs" /\ error' = error
       ELSE Fail("AssertionError")
    /\ UNCHANGED <<script, fn, pyfg_filepath, file_content, dir_exists,
                   out_files, pyfg_data, robot_landmark_frequency, i, landmark_owner,
                   reapplied>>

\* if not os.path.isdir(output_dir): os.makedirs(output_dir)
MakeDirs ==
    /\ pc = "makedirs"
    /\ dir_exists' = (IF ~dir_exists THEN TRUE ELSE dir_exists)
    /\ pc' = CASE fn = "landmark_counter" -> "read"
               [] fn = "assign_ownership_to_landmarks" -> "assign"
               [] fn = "reindex_landmarks" -> "rewrite"
    /\ i' = 0
    /\ UNCHANGED <<script, fn, error, pyfg_filepath, file_content, out_files,
                   pyfg_data, robot_landmark_frequency, landmark_owner, reapplied>>

\* read_from_pyfg_file and the initialisation of the frequency dict; the dataset read
\* has at least one robot, and its measurements name robots and landmarks it holds
ReadPyfgFile ==
    /\ pc = "read"
    /\ \E r \in 1..MaxRobots, l \in 0..MaxLandmarks, n \in 0..MaxMeasurements :
        \E ms \in [1..n -> Measures(r, l)] :
            /\ pyfg_data' = [num_robots |-> r, num_landmarks |-> l, range_measurements |-> ms]
            /\ robot_landmark_frequency' = InitialFrequency(l, r)
    /\ i' = 0
    /\ pc' = "scan"
    /\ UNCHANGED <<script, fn, error, pyfg_filepath, file_content, dir_exists,
                   out_files, landmark_owner, reapplied>>

\* one iteration of the loop over range_measurements
ScanMeasure ==
    /\ pc = "scan"
    /\ i < Len(pyfg_data.range_measurements)
    /\ LET measure == pyfg_data.range_measurements[i + 1]
           landmark == measure.association[2]
       IN  IF SkipsMeasure(script, measure)
           THEN /\ i' = i + 1
                /\ UNCHANGED <<pc, error, robot_landmark_frequency>>
           ELSE IF ~HasKey(robot_landmark_frequency, landmark)
           THEN /\ Fail("KeyError")
                /\ UNCHANGED <<i, robot_landmark_frequency>>
           ELSE IF RobotIdx(measure) >= Len(Get(robot_landmark_frequency, landmark))
           THEN /\ Fail("IndexError")
                /\ UNCHANGED <<i, robot_landmark_frequency>>
           ELSE /\ robot_landmark_frequency' =
                        Increment(robot_landmark_frequency, landmark, RobotIdx(measure))
                /\ i' = i + 1
                /\ UNCHANGED <<pc, error>>
    /\ UNCHANGED <<script, fn, pyfg_filepath, file_content, dir_exists,
                   out_files, pyfg_data, landmark_owner, reapplied>>

\* append_frequency_to_csv writes the CSV file
WriteCsv ==
    /\ pc = "scan"
    /\ i = Len(pyfg_data.range_measurements)
    /\ out_files' = Put(out_files, CsvName(pyfg_filepath),
                        CsvRows(robot_landmark_frequency, pyfg_data.num_robots))
    /\ pc' = "return"
    /\ UNCHANGED <<script, fn, error, pyfg_filepath, file_content, dir_exists, pyfg_data,
                   robot_landmark_frequency, i, landmark_owner, reapplied>>

\* landmark_counter returns the frequency dict and its locals are gone; the caller
\* landmark_connectivity goes on to assign_ownership_to_landmarks when args.reindex
\* is set
ReturnFrequency ==
    /\ pc = "return"
    /\ pyfg_data' = NoData
    /\ i' = 0
    /\ \E reindex \in BOOLEAN :
        IF script = "landmark_connectivity.py" /\ reindex
        THEN fn' = "assign_ownership_to_landmarks" /\ pc' = "validate"
        ELSE fn' = fn /\ pc' = "done"
    /\ UNCHANGED <<script, error, pyfg_filepath, file_content, dir_exists, out_files,
                   robot_landmark_frequency, landmark_owner, reapplied>>

\* one iteration of the loop over robot_landmark_frequency.items()
AssignLandmark ==
    /\ pc = "assign"
    /\ i < Len(robot_landmark_frequency)
    /\ LET landmark == robot_landmark_frequency[i + 1].key
           freq == robot_landmark_frequency[i + 1].value
       IN  IF IsUnobserved(freq)
           THEN landmark_owner' = landmark_owner
           ELSE IF IsTie(freq)
           THEN \E r \in RandomValues :
                    landmark_owner' =
                        Put(landmark_owner, landmark,
                            get_robot_char_from_number(RandomIndex(r, Len(freq))))
           ELSE landmark_owner' =
                    Put(landmark_owner, landmark, get_robot_char_from_number(MaxIndex(freq)))
    /\ i' = i + 1
    /\ UNCHANGED <<script, fn, pc, error, pyfg_filepath, file_content, dir_exists,
                   out_files, pyfg_data, robot_landmark_frequency, reapplied>>

\* reindex_landmarks(pyfg_filepath, landmark_owner, output_dir) after the loop
CallReindex ==
    /\ pc = "assign"
    /\ i = Len(robot_landmark_frequency)
    /\ fn' = "reindex_landmarks"
    /\ pc' = "validate"
    /\ UNCHANGED <<script, error, pyfg_filepath, file_content, dir_exists,
                   out_files, pyfg_data, robot_landmark_frequency, i, landmark_owner,
                   reapplied>>

\* both files are opened and every line is rewritten
Rewrite ==
    /\ pc = "rewrite"
    /\ out_files' = Put(out_files, ReindexedName(pyfg_filepath),
                        ReindexText(file_content, landmark_owner))
    /\ pc' = "done"
    /\ UNCHANGED <<script, fn, error, pyfg_filepath, file_content, dir_exists,
                   pyfg_data, robot_landmark_frequency, i, landmark_owner, reapplied>>

\* reindex_landmarks called again, on the file it wrote, with an empty ownership dict
Reapply ==
    /\ pc = "done"
    /\ fn = "reindex_landmarks"
    /\ ~reapplied
    /\ reapplied' = TRUE
    /\ pyfg_filepath' = PathJoin(OutputDir, ReindexedName(pyfg_filepath))
    /\ file_content' = Get(out_files, ReindexedName(pyfg_filepath))
    /\ landmark_owner' = <<>>
    /\ pc' = "validate"
    /\ UNCHANGED <<script, fn, error, dir_exists, out_files, pyfg_data,
                   robot_landmark_frequency, i>>

----------------------------------------------------------------------------

\* a call of landmark_counter, of either file
InitCounter ==
    /\ script \in Scripts
    /\ fn = "landmark_counter"
    /\ file_content \in SampleTexts
    /\ robot_landmark_frequency = <<>>
    /\ landmark_owner = <<>>

\* a call of assign_ownership_to_landmarks
InitAssign ==
    /\ script = "landmark_connectivity.py"
    /\ fn = "assign_ownership_to_landmarks"
    /\ file_content \in SampleTexts
    /\ robot_landmark_frequency \in FrequencyArgs
    /\ landmark_owner = <<>>

\* a call of reindex_landmarks
InitReindex ==
    /\ script = "landmark_connectivity.py"
    /\ fn = "reindex_landmarks"
    /\ \E n \in 0..MaxTextLen : file_content \in [1..n -> TextAlphabet]
    /\ robot_landmark_frequency = <<>>
    /\ landmark_owner \in OwnershipArgs

Init ==
    /\ pc = "validate"
    /\ error = "none"
    /\ pyfg_filepath \in FileNames
    /\ dir_exists \in BOOLEAN
    /\ out_files = <<>>
    /\ pyfg_data = NoData
    /\ i = 0
    /\ reapplied = FALSE
    /\ (InitCounter \/ InitAssign \/ InitReindex)

Next ==
    \/ Validate
    \/ MakeDirs
    \/ ReadPyfgFile
    \/ ScanMeasure
    \/ WriteCsv
    \/ ReturnFrequency
    \/ AssignLandmark
    \/ CallReindex
    \/ Rewrite
    \/ Reapply

Spec == Init /\ [][Next]_vars

----------------------------------------------------------------------------
(* Properties *)

\* number of the first n range measurements whose target is the landmark
TargetCount(n, landmark) ==
    Cardinality({k \in 1..n : pyfg_data.range_measurements[k].association[2] = landmark})

\* number of range measurements of the dataset taken by robot number r of the landmark
ObservationCount(landmark, r) ==
    Cardinality({k \in 1..Len(pyfg_data.range_measurements) :
        /\ pyfg_data.range_measurements[k].association[2] = landmark
        /\ pyfg_data.range_measurements[k].association[1][1] = RobotChars[r + 1]})

\* C1: while landmark_counter (of either file) scans, and when it is through, the sum
\* of every landmark's frequency vector is the number of measurements scanned so far
\* that target the landmark.
C1_SumIsTargetCount ==
    (fn = "landmark_counter" /\ pc # "done") =>
        \A n \in 1..Len(robot_landmark_frequency) :
            Sum(robot_landmark_frequency[n].value)
                = TargetCount(i, robot_landmark_frequency[n].key)

C1_Witness ==
    /\ fn = "landmark_counter"
    /\ pc = "scan"
    /\ i = 3
    /\ \E n \in 1..Len(robot_landmark_frequency) :
        Sum(robot_landmark_frequency[n].value) = 2

\* C10: the dict landmark_counter of landmark_connectivity.py returns has the keys
\* L0 .. L(num_landmarks - 1), each with a vector of num_robots entries, and entry r
\* of a landmark counts the measurements robot r took of it (zero when there are none).
C10_ReturnedFrequency ==
    (script = "landmark_connectivity.py" /\ fn = "landmark_counter" /\ pc = "return")
    =>  /\ Len(robot_landmark_frequency) = pyfg_data.num_landmarks
        /\ \A n \in 1..Len(robot_landmark_frequency) :
            /\ robot_landmark_frequency[n].key = <<"L">> \o Str(n - 1)
            /\ Len(robot_landmark_frequency[n].value) = pyfg_data.num_robots
            /\ \A r \in 0..(pyfg_data.num_robots - 1) :
                robot_landmark_frequency[n].value[r + 1]
                    = ObservationCount(robot_landmark_frequency[n].key, r)

C10_Witness ==
    /\ script = "landmark_connectivity.py"
    /\ fn = "landmark_counter"
    /\ pc = "return"
    /\ Len(robot_landmark_frequency) = 2
    /\ robot_landmark_frequency[1].value = <<0, 0, 0>>
    /\ robot_landmark_frequency[2].value = <<1, 0, 2>>

\* C8: a scan step on a measurement whose target is not a landmark leaves the
\* frequency dict as it is, raises nothing and moves on to the next measurement,
\* in landmark_connectivity.py and in landmark_counter.py.
C8_InterRobotSkipped ==
    [][(/\ pc = "scan"
        /\ i < Len(pyfg_data.range_measurements)
        /\ pyfg_data.range_measurements[i + 1].association[2][1] # "L")
       => (/\ robot_landmark_frequency' = robot_landmark_frequency
           /\ error' = "none"
           /\ pc' = "scan"
           /\ i' = i + 1)]_vars

\* the landmark at position n of the frequency dict has been through the loop of
\* assign_ownership_to_landmarks and landmark_owner is still the dict it filled
Processed(n) ==
    \/ fn = "assign_ownership_to_landmarks" /\ pc = "assign" /\ n <= i
    \/ fn = "reindex_landmarks" /\ ~reapplied

AllZero(freq) == \A k \in 1..Len(freq) : freq[k] = 0

\* exactly one index holds the maximum
UniqueMaximum(freq, k) == \A m \in 1..Len(freq) : m # k => freq[m] < freq[k]

\* C2: a landmark whose frequency vector is all zeros is never a key of landmark_owner,
\* in particular not when the dict is handed to reindex_landmarks.
C2_UnobservedHasNoOwner ==
    \A n \in 1..Len(robot_landmark_frequency) :
        AllZero(robot_landmark_frequency[n].value)
            => robot_landmark_frequency[n].key \notin Keys(landmark_owner)

C2_Witness ==
    /\ fn = "reindex_landmarks"
    /\ pc = "rewrite"
    /\ Len(robot_landmark_frequency) = 2
    /\ AllZero(robot_landmark_frequency[1].value)
    /\ robot_landmark_frequency[1].key \notin Keys(landmark_owner)
    /\ robot_landmark_frequency[2].key \in Keys(landmark_owner)

\* C3 as stated: every landmark whose frequency vector has a unique maximum entry is
\* owned by the robot holding it.
C3_UniqueMaximumOwns ==
    \A n \in 1..Len(robot_landmark_frequency) :
        \A k \in 1..Len(robot_landmark_frequency[n].value) :
            (Processed(n) /\ UniqueMaximum(robot_landmark_frequency[n].value, k))
            =>  /\ robot_landmark_frequency[n].key \in Keys(landmark_owner)
                /\ Get(landmark_owner, robot_landmark_frequency[n].key) = RobotChars[k]

\* C3 amended: every landmark whose frequency vector has a unique maximum entry that
\* is not zero is owned by the robot holding it.
C3_UniqueNonzeroMaximumOwns ==
    \A n \in 1..Len(robot_landmark_frequency) :
        \A k \in 1..Len(robot_landmark_frequency[n].value) :
            (/\ Processed(n)
             /\ UniqueMaximum(robot_landmark_frequency[n].value, k)
             /\ robot_landmark_frequency[n].value[k] > 0)
            =>  /\ robot_landmark_frequency[n].key \in Keys(landmark_owner)
                /\ Get(landmark_owner, robot_landmark_frequency[n].key) = RobotChars[k]

C3_Witness ==
    /\ fn = "reindex_landmarks"
    /\ pc = "done"
    /\ ~reapplied
    /\ Len(robot_landmark_frequency) = 1
    /\ robot_landmark_frequency[1].value = <<1, 2>>
    /\ landmark_owner = <<Item(<<"L", "0">>, "B")>>

\* C4: a landmark whose counts are all equal and not zero is owned by one of the
\* robots of its vector, whatever random.random() returned.
C4_FullTieOwnerIsTied ==
    \A n \in 1..Len(robot_landmark_frequency) :
        (/\ Processed(n)
         /\ IsTie(robot_landmark_frequency[n].value)
         /\ ~AllZero(robot_landmark_frequency[n].value))
        =>  /\ robot_landmark_frequency[n].key \in Keys(landmark_owner)
            /\ \E r \in 0..(Len(robot_landmark_frequency[n].value) - 1) :
                Get(landmark_owner, robot_landmark_frequency[n].key) = RobotChars[r + 1]

C4_Witness ==
    /\ fn = "assign_ownership_to_landmarks"
    /\ pc = "assign"
    /\ i = 1
    /\ robot_landmark_frequency[1].value = <<1, 1, 1>>
    /\ landmark_owner = <<Item(<<"L", "0">>, "C")>>

\* at least two entries hold the maximum, and not all entries are equal
PartialTie(freq) ==
    /\ \E k, m \in 1..Len(freq) :
        k # m /\ freq[k] = freq[m] /\ \A q \in 1..Len(freq) : freq[q] <= freq[k]
    /\ \E k, m \in 1..Len(freq) : freq[k] # freq[m]

RECURSIVE WithOwners(_, _)
WithOwners(text, owners) ==
    IF text = <<>> THEN <<>>
    ELSE LET here == {n \in 1..Len(owners) :
                        /\ Len(owners[n].key) <= Len(text)
                        /\ SubSeq(text, 1, Len(owners[n].key)) = owners[n].key}
         IN  IF here = {}
             THEN <<text[1]>> \o WithOwners(Tail(text), owners)
             ELSE LET n == CHOOSE q \in here :
                              \A m \in here : Len(owners[m].key) <= Len(owners[q].key)
                  IN  <<"L", owners[n].value>> \o Tail(owners[n].key)
                      \o WithOwners(SubSeq(text, Len(owners[n].key) + 1, Len(text)), owners)

\* C5: the file reindex_landmarks writes is the input in which every occurrence of an
\* owned landmark symbol L<i> is replaced by L<owner of L<i>><i>, also when one symbol
\* is the beginning of another, and nothing else is changed.
C5_EverySymbolGetsItsOwner ==
    (fn = "reindex_landmarks" /\ pc = "done" /\ ~reapplied)
    => Get(out_files, ReindexedName(pyfg_filepath))
            = WithOwners(Decode(file_content), landmark_owner)

\* C6 as stated: with an empty ownership dict the file written equals the input line
\* for line, and so does the file written when reindex_landmarks is applied again.
C6_EmptyOwnershipCopiesLines ==
    (fn = "reindex_landmarks" /\ pc = "done" /\ landmark_owner = <<>>)
    => Lines(Get(out_files, ReindexedName(pyfg_filepath))) = Lines(file_content)

\* C6 amended: with an empty ownership dict the file written is the input with every
\* "\r\n" and every other "\r" turned into "\n", hence the input itself when it holds
\* no "\r"; applied again to the file it wrote, reindex_landmarks writes that content
\* unchanged.
C6_EmptyOwnershipCopiesDecoded ==
    (fn = "reindex_landmarks" /\ pc = "done" /\ landmark_owner = <<>>)
    => LET out == Get(out_files, ReindexedName(pyfg_filepath))
       IN  /\ out = Decode(file_content)
           /\ (\A k \in 1..Len(file_content) : file_content[k] # "\r") => out = file_content
           /\ reapplied => out = file_content

C6_Witness ==
    /\ fn = "reindex_landmarks"
    /\ pc = "done"
    /\ reapplied
    /\ file_content = <<"L", "\n", "1">>
    /\ Len(out_files) = 2
    /\ out_files[1].value = <<"L", "\n", "1">>
    /\ out_files[2].value = <<"L", "\n", "1">>

\* the path ends in .pyfg
IsPyfgPath(path) ==
    /\ Len(path) >= 5
    /\ path[Len(path) - 4] = "."
    /\ path[Len(path) - 3] = "p"
    /\ path[Len(path) - 2] = "y"
    /\ path[Len(path) - 1] = "f"
    /\ path[Len(path)] = "g"

\* C7: called with a path that does not end in .pyfg, landmark_counter (of either
\* file), assign_ownership_to_landmarks and reindex_landmarks fail with the assertion
\* at the validation, the output directory is left as it was and no file is written;
\* with a path that ends in .pyfg the assertion never fails.
C7_ValidationComesFirst ==
    /\ [](IF IsPyfgPath(pyfg_filepath)
          THEN error # "AssertionError"
          ELSE /\ pc \in {"validate", "failed"}
               /\ pc = "failed" <=> error = "AssertionError"
               /\ out_files = <<>>)
    /\ [][~IsPyfgPath(pyfg_filepath)
          => (dir_exists' = dir_exists /\ (pc = "validate" => pc' = "failed"))]_vars

C7_Witness ==
    /\ fn = "assign_ownership_to_landmarks"
    /\ pc = "failed"
    /\ error = "AssertionError"
    /\ pyfg_filepath = <<"a", ".", "p", "y", "f", "g", "~">>
    /\ ~dir_exists
    /\ out_files = <<>>

====
